---- MODULE Spec2Model ----
(***************************************************************************)
(* Model of markdown-to-pdf.                                               *)
(*                                                                         *)
(* Server (src/unnamed/part_001): the POST /api/convert handler, the       *)
(* singleton browser of getBrowser and the page pipeline of                *)
(* convertMarkdown. Every await of the source is a suspension point, so    *)
(* each action below is the code between two awaits that touches shared    *)
(* state (JavaScript runs that code atomically).                           *)
(*                                                                         *)
(* Client (src/unnamed/part_000): the React state of App, its event        *)
(* handlers and the in-flight conversions they start.                      *)
(***************************************************************************)
EXTENDS Integers, Sequences, FiniteSets, TLC

\* ------------------------------------------------------------------ bounds
Slots == 2          \* request handlers that may be in flight at once
MaxRequests == 2    \* requests the server receives in one behaviour
MaxLaunches == 2    \* browser processes puppeteer.launch may start
MaxPages == 2       \* pages browser.newPage may open
MaxOps == 2         \* client conversions (handler invocations) in flight at once
MaxStarts == 2      \* client conversions started in one behaviour

\* --------------------------------------------------------- program constants
MAX_SIZE == 5 * 1024 * 1024
ViewportWidth == 900
NominalHeight == 100
BottomPadding == 40
\* measured heights are rationals: h = n / HeightDen
HeightDen == 2

\* ------------------------------------------------------------- JS values
\* A string is described by what the handler looks at: its length and what
\* String.prototype.trim leaves of it. ws = leading + trailing white space,
\* body = length of the trimmed string.
Str(ws, body) == [t |-> "string", ws |-> ws, body |-> body]
Undefined == [t |-> "undefined", ws |-> 0, body |-> 0]
Null == [t |-> "null", ws |-> 0, body |-> 0]
Num == [t |-> "number", ws |-> 0, body |-> 0]
\* a File part: size = byte length of its text
File(ws, body) == [t |-> "file", ws |-> ws, body |-> body]

StrLength(v) == v.ws + v.body
FileSize(f) == f.ws + f.body
FileText(f) == Str(f.ws, f.body)
Trim(v) == Str(0, v.body)
\* JS truthiness of the values above (Num stands for a non-zero number)
Truthy(v) ==
  CASE v.t = "string" -> StrLength(v) > 0
    [] v.t = "file" -> TRUE
    [] v.t = "number" -> TRUE
    [] OTHER -> FALSE
\* a ?? b
Coalesce(a, b) == IF a.t \in {"undefined", "null"} THEN b ELSE a
HasTrim(v) == v.t = "string"

\* --------------------------------------------------------------- requests
\* What a client can send to POST /api/convert. ct: does the content-type
\* include multipart/form-data; parses: does req.formData() / req.json()
\* succeed; body: the kind of JSON value ("form" for multipart); file,
\* markdown, format, pis: the fields (Null = formData.get found nothing,
\* Undefined = JSON property absent).
Request(ct, parses, body, f, md, fmt, p) ==
  [ct |-> ct, parses |-> parses, body |-> body, file |-> f,
   markdown |-> md, format |-> fmt, pis |-> p]

FileParts == {Null, File(0, 0), File(2, 0), File(0, 3), File(0, MAX_SIZE),
              File(0, MAX_SIZE + 1), File(MAX_SIZE + 1, 0)}
TextParts == {Null, Str(0, 0), Str(2, 0), Str(1, 2), Str(0, MAX_SIZE + 1)}
FormatFields == {"pdf", "png", "gif", "absent"}
FormPisFields == {"s:true", "s:false", "absent"}
JsonPisFields == {"b:true", "b:false", "s:false", "absent"}
JsonMarkdowns == {Undefined, Null, Num, Str(0, 0), Str(2, 0), Str(1, 2),
                  Str(0, MAX_SIZE + 1)}

MultipartRequests ==
  {Request("multipart", TRUE, "form", f, m, fmt, p) :
     f \in FileParts, m \in TextParts, fmt \in FormatFields, p \in FormPisFields}
  \cup {Request("multipart", FALSE, "form", Null, Null, "absent", "absent")}
JsonRequests ==
  {Request("json", TRUE, "object", Undefined, m, fmt, p) :
     m \in JsonMarkdowns, fmt \in FormatFields, p \in JsonPisFields}
  \cup {Request("json", TRUE, b, Undefined, Undefined, "absent", "absent") :
          b \in {"null", "scalar"}}
  \cup {Request("json", FALSE, "none", Undefined, Undefined, "absent", "absent")}
AllRequests == MultipartRequests \cup JsonRequests

\* The requests the browser client of part_000 sends (convertToBlob), used
\* where handlers run concurrently.
ClientRequests ==
  {Request("multipart", TRUE, "form", r[1], r[2], r[3], r[4]) :
     r \in {<<File(0, 3), Null, "pdf", "s:true">>,
            <<File(0, 3), Null, "png", "s:false">>,
            <<Null, Str(1, 2), "pdf", "s:false">>,
            <<Null, Str(1, 2), "png", "s:true">>}}

\* the content a request carries as markdown source, whichever way it is sent
ContentSize(in) ==
  IF in.ct = "multipart"
  THEN IF in.file.t = "file" /\ FileSize(in.file) > 0
       THEN FileSize(in.file)
       ELSE StrLength(in.markdown)
  ELSE StrLength(in.markdown)

\* -------------------------------------------------- POST /api/convert, 13-44
\* property read on a parsed JSON body: a scalar has no such property
JsonField(in, v) == IF in.body = "object" THEN v ELSE Undefined
JsonScalarField(in, v) == IF in.body = "object" THEN v ELSE "absent"

Outcome(o, md, fmt, p) ==
  [out |-> o, markdown |-> md, format |-> fmt, pis |-> p]

\* lines 27-34 with the text field tested before the file part
ResolveMultipartTextFirst(in) ==
  LET fmt == IF in.format = "png" THEN "png" ELSE "pdf"
      p == in.pis # "s:false"
  IN IF ~in.parses THEN Outcome("throw", Str(0, 0), "pdf", TRUE)
     ELSE IF Truthy(in.markdown)
     THEN Outcome("resolved", in.markdown, fmt, p)
     ELSE IF Truthy(in.file) /\ FileSize(in.file) > 0
     THEN IF FileSize(in.file) > MAX_SIZE
          THEN Outcome("tooLarge", Str(0, 0), fmt, p)
          ELSE Outcome("resolved", FileText(in.file), fmt, p)
     ELSE Outcome("resolved", Str(0, 0), fmt, p)

\* lines 20-34
ResolveMultipart(in) ==
  LET fmt == IF in.format = "png" THEN "png" ELSE "pdf"
      p == in.pis # "s:false"
  IN IF ~in.parses THEN Outcome("throw", Str(0, 0), "pdf", TRUE)
     ELSE IF Truthy(in.file) /\ FileSize(in.file) > 0
     THEN IF FileSize(in.file) > MAX_SIZE
          THEN Outcome("tooLarge", Str(0, 0), fmt, p)
          ELSE Outcome("resolved", FileText(in.file), fmt, p)
     ELSE IF Truthy(in.markdown)
     THEN Outcome("resolved", in.markdown, fmt, p)
     ELSE Outcome("resolved", Str(0, 0), fmt, p)

\* lines 35-40
ResolveJson(in) ==
  IF ~in.parses \/ in.body = "null"
  THEN Outcome("throw", Str(0, 0), "pdf", TRUE)
  ELSE Outcome("resolved",
               Coalesce(JsonField(in, in.markdown), Str(0, 0)),
               IF JsonScalarField(in, in.format) = "png" THEN "png" ELSE "pdf",
               JsonScalarField(in, in.pis) # "b:false")

\* Validate with line 42 testing !markdown instead of !markdown.trim()
ValidateNoTrim(in) ==
  LET r == IF in.ct = "multipart" THEN ResolveMultipart(in) ELSE ResolveJson(in)
  IN IF r.out # "resolved" THEN r
     ELSE IF ~HasTrim(r.markdown) THEN [r EXCEPT !.out = "throw"]
     ELSE IF StrLength(r.markdown) = 0 THEN [r EXCEPT !.out = "empty"]
     ELSE [r EXCEPT !.out = "convert"]

\* lines 14-44: what the handler has decided when it reaches line 46
Validate(in) ==
  LET r == IF in.ct = "multipart" THEN ResolveMultipart(in) ELSE ResolveJson(in)
  IN IF r.out # "resolved" THEN r
     ELSE IF ~HasTrim(r.markdown) THEN [r EXCEPT !.out = "throw"]
     ELSE IF StrLength(Trim(r.markdown)) = 0 THEN [r EXCEPT !.out = "empty"]
     ELSE [r EXCEPT !.out = "convert"]

\* ------------------------------------------------------------- responses
NoDoc == [body |-> Undefined, css |-> <<>>]
NoOutput == [kind |-> "none", doc |-> NoDoc, vw |-> 0, vh |-> 0]
Response(status, error, mime, body) ==
  [status |-> status, error |-> error, mime |-> mime, body |-> body]
NoResponse == Response(0, "", "", NoOutput)
\* line 29
TooLarge == Response(400, "File too large (max 5MB)", "application/json", NoOutput)
\* line 43
NoContent == Response(400, "No markdown content provided", "application/json", NoOutput)
\* the catch of line 60 answering with the message of the error it caught
FailedWithDetail ==
  Response(500, "Protocol error: Target closed", "application/json", NoOutput)
\* lines 60-66
Failed == Response(500, "Conversion failed. Please try again.", "application/json", NoOutput)
\* lines 50-59
Success(fmt, result) ==
  Response(200, "", IF fmt = "pdf" THEN "application/pdf" ELSE "image/png", result)

\* -------------------------------------------------------- convertMarkdown
\* lines 336-338
ResolveOptions(options) ==
  [preventImageSplit |->
     IF options.has THEN options.preventImageSplit ELSE TRUE]
\* line 339: the external parser, an opaque function of the source text
MarkedParse(md) == [t |-> "html", ws |-> md.ws, body |-> md.body]
\* htmlTemplate with the block of lines 269-295 outside the conditional
htmlTemplateUnconditional(body, options) ==
  [body |-> body,
   css |-> <<"theme", "pagination-safety", "heading-break-after", "hr", "checklist">>]
\* lines 98-317: the style blocks of the document, in order, around the body
htmlTemplate(body, options) ==
  [body |-> body,
   css |-> <<"theme">>
           \o (IF options.preventImageSplit THEN <<"pagination-safety">> ELSE <<>>)
           \o <<"heading-break-after", "hr", "checklist">>]

\* Math.floor in place of Math.ceil
Floor(n) == n \div HeightDen
\* Math.ceil of the rational n / HeightDen
Ceil(n) == (n + HeightDen - 1) \div HeightDen
\* heights boundingBox may report, as numerators over HeightDen
Heights == {0, 1, 3}

\* ------------------------------------------------------------ server state
VARIABLES
  browserInstance,  \* line 319: 0 = null, else the id of the stored browser
  browsers,         \* the browser processes launched so far, by id:
                    \*   "connected" or "disconnected"
  pages,            \* the pages opened so far, by id
  slot,             \* the invocations of POST in flight: locals and position
  nreq              \* requests received so far

svars == <<browserInstance, browsers, pages, slot, nreq>>

\* ------------------------------------------------------------ client state
VARIABLES
  tab,                \* part_000 line 19
  lastInputTab,       \* line 20
  markdown,           \* line 21: the pasted text, a sequence of characters
  file,               \* line 22: the chosen file, or NoFile for null
  format,             \* line 23: the preview format
  preventImageSplit,  \* line 24
  loading,            \* line 32
  error,              \* line 33
  convertedBundle,    \* line 35: the cached bundle, or NoBundle for null
  ops,                \* the conversions in flight: their closures and requests
  effect,             \* what the last step showed the user (preview, download)
  nstarted            \* conversions started so far

cvars == <<tab, lastInputTab, markdown, file, format, preventImageSplit,
           loading, error, convertedBundle, ops, effect, nstarted>>
vars == <<svars, cvars>>

SlotIds == 1..Slots

NoRequest == Request("none", FALSE, "none", Undefined, Undefined, "absent", "absent")
IdleSlot ==
  [pc |-> "idle", id |-> 0, input |-> NoRequest, markdown |-> Str(0, 0),
   format |-> "pdf", pis |-> TRUE, html |-> NoDoc, invoked |-> FALSE,
   launched |-> FALSE, browser |-> 0, page |-> 0, height |-> 0,
   thrown |-> FALSE, result |-> NoOutput, resp |-> NoResponse]

\* a page as the browser holds it
NewPageRecord(b, opener) ==
  [browser |-> b, opener |-> opener, state |-> "open", doc |-> NoDoc,
   vw |-> 0, vh |-> 0, measured |-> FALSE, pdfs |-> 0, shots |-> 0,
   closeCalls |-> 0, users |-> {}]

Connected(b) == b # 0 /\ browsers[b] = "connected"
\* an operation on a page can only succeed on an open page of a live browser
Usable(p) == p # 0 /\ pages[p].state = "open" /\ Connected(pages[p].browser)

ServerInit ==
  /\ browserInstance = 0
  /\ browsers = <<>>
  /\ pages = <<>>
  /\ slot = [s \in SlotIds |-> IdleSlot]
  /\ nreq = 0

\* ---------------------------------------------- POST /api/convert, 12-48
\* The handler from its entry to the call of convertMarkdown (whose lines
\* 336-340 build the document before its first use of shared state).
Post(s, in) ==
  /\ slot[s].pc = "idle"
  /\ nreq < MaxRequests
  /\ nreq' = nreq + 1
  /\ LET v == Validate(in)
         me == [IdleSlot EXCEPT !.id = nreq + 1, !.input = in]
     IN slot' = [slot EXCEPT ![s] =
          CASE v.out = "throw" -> [me EXCEPT !.pc = "done", !.resp = Failed]
            [] v.out = "tooLarge" -> [me EXCEPT !.pc = "done", !.resp = TooLarge]
            [] v.out = "empty" -> [me EXCEPT !.pc = "done", !.resp = NoContent]
            [] OTHER ->
                 [me EXCEPT !.pc = "convert", !.invoked = TRUE,
                            !.markdown = v.markdown, !.format = v.format,
                            !.pis = v.pis,
                            !.html = htmlTemplate(
                                MarkedParse(v.markdown),
                                ResolveOptions([has |-> TRUE,
                                                preventImageSplit |-> v.pis]))]]
  /\ UNCHANGED <<browserInstance, browsers, pages, cvars>>

\* ------------------------------------------------------ getBrowser, 321-329
NeedsLaunch == browserInstance = 0 \/ ~Connected(browserInstance)

\* getBrowser testing only that a handle is stored, not that it is connected
GetBrowserNoConnectedTest(s) ==
  /\ slot[s].pc = "convert"
  /\ slot' = [slot EXCEPT ![s] =
       IF browserInstance = 0
       THEN [@ EXCEPT !.pc = "launching"]
       ELSE [@ EXCEPT !.pc = "newPage", !.browser = browserInstance]]
  /\ UNCHANGED <<browserInstance, browsers, pages, nreq, cvars>>

\* line 322, and line 328 when nothing is launched
GetBrowser(s) ==
  /\ slot[s].pc = "convert"
  /\ slot' = [slot EXCEPT ![s] =
       IF NeedsLaunch
       THEN [@ EXCEPT !.pc = "launching"]
       ELSE [@ EXCEPT !.pc = "newPage", !.browser = browserInstance]]
  /\ UNCHANGED <<browserInstance, browsers, pages, nreq, cvars>>

\* lines 323-328: puppeteer.launch resolved
LaunchOk(s) ==
  /\ slot[s].pc = "launching"
  /\ Len(browsers) < MaxLaunches
  /\ LET b == Len(browsers) + 1
     IN /\ browsers' = Append(browsers, "connected")
        /\ browserInstance' = b
        /\ slot' = [slot EXCEPT ![s] =
             [@ EXCEPT !.pc = "newPage", !.browser = browserInstance',
                       !.launched = TRUE]]
  /\ UNCHANGED <<pages, nreq, cvars>>

\* LaunchFail with getBrowser resetting the singleton when the launch fails
LaunchFailClears(s) ==
  /\ slot[s].pc = "launching"
  /\ browserInstance' = 0
  /\ slot' = [slot EXCEPT ![s] = [@ EXCEPT !.pc = "done", !.resp = Failed]]
  /\ UNCHANGED <<browsers, pages, nreq, cvars>>

\* line 323 rejected: the error leaves getBrowser and convertMarkdown (342)
\* and is caught at line 60
LaunchFail(s) ==
  /\ slot[s].pc = "launching"
  /\ slot' = [slot EXCEPT ![s] = [@ EXCEPT !.pc = "done", !.resp = Failed]]
  /\ UNCHANGED <<browserInstance, browsers, pages, nreq, cvars>>

\* -------------------------------------------------- convertMarkdown, 343-371
\* line 343 handing out a page that is already open in the session instead
\* of opening a new one whenever there is such a page
NewPageShared(s) ==
  /\ slot[s].pc = "newPage"
  /\ Connected(slot[s].browser)
  /\ LET shared == {p \in 1..Len(pages) :
                      pages[p].state = "open" /\ pages[p].browser = slot[s].browser}
     IN IF shared # {}
        THEN /\ pages' = pages
             /\ slot' = [slot EXCEPT ![s] =
                  [@ EXCEPT !.pc = "setContent",
                            !.page = CHOOSE p \in shared : TRUE]]
        ELSE /\ Len(pages) < MaxPages
             /\ pages' = Append(pages, NewPageRecord(slot[s].browser, slot[s].id))
             /\ slot' = [slot EXCEPT ![s] =
                  [@ EXCEPT !.pc = "setContent", !.page = Len(pages) + 1]]
  /\ UNCHANGED <<browserInstance, browsers, nreq, cvars>>

\* line 343 resolved
NewPageOk(s) ==
  /\ slot[s].pc = "newPage"
  /\ Connected(slot[s].browser)
  /\ Len(pages) < MaxPages
  /\ pages' = Append(pages, NewPageRecord(slot[s].browser, slot[s].id))
  /\ slot' = [slot EXCEPT ![s] =
       [@ EXCEPT !.pc = "setContent", !.page = Len(pages) + 1]]
  /\ UNCHANGED <<browserInstance, browsers, nreq, cvars>>

\* line 343 rejected: outside the try, so nothing is closed
NewPageFail(s) ==
  /\ slot[s].pc = "newPage"
  /\ slot' = [slot EXCEPT ![s] = [@ EXCEPT !.pc = "done", !.resp = Failed]]
  /\ UNCHANGED <<browserInstance, browsers, pages, nreq, cvars>>

\* every page operation records who performed it
Touch(pg, id) == [pg EXCEPT !.users = @ \cup {id}]
\* a page that no longer exists holds no document and no viewport
Dropped(pg, state) == [pg EXCEPT !.state = state, !.doc = NoDoc, !.vw = 0, !.vh = 0]

\* line 346 followed by the pdf branch whatever the format is
SetContentOkAlwaysPdf(s) ==
  /\ slot[s].pc = "setContent"
  /\ Usable(slot[s].page)
  /\ pages' = [pages EXCEPT ![slot[s].page] =
       [Touch(@, slot[s].id) EXCEPT !.doc = slot[s].html]]
  /\ slot' = [slot EXCEPT ![s] = [@ EXCEPT !.pc = "pdf"]]
  /\ UNCHANGED <<browserInstance, browsers, nreq, cvars>>

\* line 346 resolved
SetContentOk(s) ==
  /\ slot[s].pc = "setContent"
  /\ Usable(slot[s].page)
  /\ pages' = [pages EXCEPT ![slot[s].page] =
       [Touch(@, slot[s].id) EXCEPT !.doc = slot[s].html]]
  /\ slot' = [slot EXCEPT ![s] =
       [@ EXCEPT !.pc = IF slot[s].format = "pdf" THEN "pdf" ELSE "setViewport1"]]
  /\ UNCHANGED <<browserInstance, browsers, nreq, cvars>>

\* lines 349-354 resolved
PdfOk(s) ==
  /\ slot[s].pc = "pdf"
  /\ Usable(slot[s].page)
  /\ pages' = [pages EXCEPT ![slot[s].page] =
       [Touch(@, slot[s].id) EXCEPT !.pdfs = @ + 1]]
  /\ slot' = [slot EXCEPT ![s] =
       [@ EXCEPT !.pc = "close",
                 !.result = [kind |-> "pdf", doc |-> pages[slot[s].page].doc,
                             vw |-> 0, vh |-> 0]]]
  /\ UNCHANGED <<browserInstance, browsers, nreq, cvars>>

\* line 356 resolved
SetViewport1Ok(s) ==
  /\ slot[s].pc = "setViewport1"
  /\ Usable(slot[s].page)
  /\ pages' = [pages EXCEPT ![slot[s].page] =
       [Touch(@, slot[s].id) EXCEPT !.vw = ViewportWidth, !.vh = NominalHeight]]
  /\ slot' = [slot EXCEPT ![s] = [@ EXCEPT !.pc = "measure"]]
  /\ UNCHANGED <<browserInstance, browsers, nreq, cvars>>

\* lines 358-359 resolved with a box of height h / HeightDen
MeasureOk(s, h) ==
  /\ slot[s].pc = "measure"
  /\ Usable(slot[s].page)
  /\ pages' = [pages EXCEPT ![slot[s].page] =
       [Touch(@, slot[s].id) EXCEPT !.measured = TRUE]]
  /\ slot' = [slot EXCEPT ![s] = [@ EXCEPT !.pc = "setViewport2", !.height = h]]
  /\ UNCHANGED <<browserInstance, browsers, nreq, cvars>>

\* line 360 resolved
SetViewport2Ok(s) ==
  /\ slot[s].pc = "setViewport2"
  /\ Usable(slot[s].page)
  /\ pages' = [pages EXCEPT ![slot[s].page] =
       [Touch(@, slot[s].id) EXCEPT !.vw = ViewportWidth,
                                    !.vh = Ceil(slot[s].height) + BottomPadding]]
  /\ slot' = [slot EXCEPT ![s] = [@ EXCEPT !.pc = "screenshot"]]
  /\ UNCHANGED <<browserInstance, browsers, nreq, cvars>>

\* lines 361-366 resolved
ScreenshotOk(s) ==
  /\ slot[s].pc = "screenshot"
  /\ Usable(slot[s].page)
  /\ pages' = [pages EXCEPT ![slot[s].page] =
       [Touch(@, slot[s].id) EXCEPT !.shots = @ + 1]]
  /\ slot' = [slot EXCEPT ![s] =
       [@ EXCEPT !.pc = "close",
                 !.result = [kind |-> "png", doc |-> pages[slot[s].page].doc,
                             vw |-> pages[slot[s].page].vw,
                             vh |-> pages[slot[s].page].vh]]]
  /\ UNCHANGED <<browserInstance, browsers, nreq, cvars>>

TryPcs == {"setContent", "pdf", "setViewport1", "measure", "setViewport2",
           "screenshot"}

\* StepFail with page.close() after the try block instead of in a finally:
\* the error leaves convertMarkdown at once
StepFailNoFinally(s) ==
  /\ slot[s].pc \in TryPcs
  /\ slot' = [slot EXCEPT ![s] =
       [@ EXCEPT !.pc = "done", !.thrown = TRUE, !.resp = Failed]]
  /\ UNCHANGED <<browserInstance, browsers, pages, nreq, cvars>>

\* an await of lines 346-366 rejected (or boundingBox gave null, line 359):
\* control goes to the finally of line 368 with the error pending
StepFail(s) ==
  /\ slot[s].pc \in TryPcs
  /\ slot' = [slot EXCEPT ![s] = [@ EXCEPT !.pc = "close", !.thrown = TRUE]]
  /\ UNCHANGED <<browserInstance, browsers, pages, nreq, cvars>>

\* lines 368-370, then lines 50-66 of the handler: page.close() is called;
\* it rejects when the page or its browser is already gone, and that error
\* replaces the pending result
Finally(s) ==
  /\ slot[s].pc = "close"
  /\ LET p == slot[s].page
         ok == Usable(p)
     IN /\ pages' = [pages EXCEPT ![p] =
             [(IF ok THEN Dropped(Touch(@, slot[s].id), "closed")
                     ELSE Touch(@, slot[s].id))
                EXCEPT !.closeCalls = @ + 1]]
        /\ slot' = [slot EXCEPT ![s] =
             [@ EXCEPT !.pc = "done",
                       !.thrown = @ \/ ~ok,
                       !.resp = IF slot[s].thrown \/ ~ok
                                THEN Failed
                                ELSE Success(slot[s].format, slot[s].result)]]
  /\ UNCHANGED <<browserInstance, browsers, nreq, cvars>>

\* the response has been sent: the invocation is over
Finish(s) ==
  /\ slot[s].pc = "done"
  /\ slot' = [slot EXCEPT ![s] = IdleSlot]
  /\ UNCHANGED <<browserInstance, browsers, pages, nreq, cvars>>

\* the environment: a browser process dies, and its pages with it
Disconnect(b) ==
  /\ b \in 1..Len(browsers)
  /\ browsers[b] = "connected"
  /\ browsers' = [browsers EXCEPT ![b] = "disconnected"]
  /\ pages' = [p \in 1..Len(pages) |->
       IF pages[p].browser = b /\ pages[p].state = "open"
       THEN Dropped(pages[p], "gone")
       ELSE pages[p]]
  /\ UNCHANGED <<browserInstance, slot, nreq, cvars>>

\* ------------------------------------------------- client: strings and files
\* Strings the client concatenates or searches are sequences of characters.
DigitChar(d) == <<"0", "1", "2", "3", "4", "5", "6", "7", "8", "9">>[d + 1]
RECURSIVE Dec(_)
\* a number as a template literal prints it
Dec(n) == IF n < 10 THEN <<DigitChar(n)>> ELSE Dec(n \div 10) \o <<DigitChar(n % 10)>>
\* a boolean as a template literal prints it
BoolStr(b) == IF b THEN <<"t", "r", "u", "e">> ELSE <<"f", "a", "l", "s", "e">>

IsSpace(c) == c \in {" ", "\n", "\t"}
RECURSIVE TrimStart(_)
TrimStart(str) ==
  IF str # <<>> /\ IsSpace(Head(str)) THEN TrimStart(Tail(str)) ELSE str
RECURSIVE TrimEnd(_)
TrimEnd(str) ==
  IF str # <<>> /\ IsSpace(str[Len(str)])
  THEN TrimEnd(SubSeq(str, 1, Len(str) - 1))
  ELSE str
\* String.prototype.trim
TrimStr(str) == TrimEnd(TrimStart(str))
\* String.prototype.endsWith
EndsWith(str, suffix) ==
  /\ Len(str) >= Len(suffix)
  /\ SubSeq(str, Len(str) - Len(suffix) + 1, Len(str)) = suffix
\* String.prototype.lastIndexOf, 0-based, -1 when absent
LastIndexOf(str, c) ==
  LET at == {i \in 1..Len(str) : str[i] = c}
  IN IF at = {} THEN -1 ELSE (CHOOSE i \in at : \A j \in at : j <= i) - 1

\* a File as the client sees it; NoFile stands for null / undefined
UploadFile(name, size, lastModified, type) ==
  [some |-> TRUE, name |-> name, size |-> size, lastModified |-> lastModified,
   type |-> type]
NoFile == [some |-> FALSE, name |-> <<>>, size |-> 0, lastModified |-> 0,
           type |-> ""]

NotesFile == UploadFile(<<"n", ".", "m", "d">>, 3, 7, "text/markdown")
PasteFile == UploadFile(<<"p", "a", "s", "t", "e">>, 3, 7, "text/plain")
ImageFile == UploadFile(<<"x">>, 3, 7, "image/png")
\* files the user can choose, what can be dropped, texts that can be typed
Files == {NotesFile, PasteFile}
Droppable == Files \cup {ImageFile}
Texts == {<<>>, <<" ">>, <<"3", ":", "7">>, <<" ", "a">>}

\* ConversionSource, lines 7-9
UploadSource(f) == [tab |-> "upload", file |-> f, markdown |-> <<>>]
PasteSource(md) == [tab |-> "paste", file |-> NoFile, markdown |-> md]
NoSource == [tab |-> "none", file |-> NoFile, markdown |-> <<>>]

\* ------------------------------------------------------ client: App, 42-95
\* line 42
activeInputTab == IF tab = "settings" THEN lastInputTab ELSE tab
\* line 43
hasContent ==
  IF activeInputTab = "paste" THEN Len(TrimStr(markdown)) > 0 ELSE file.some

PreventSplitTag ==
  <<":", "p", "r", "e", "v", "e", "n", "t", "S", "p", "l", "i", "t", "=">>
PastePrefix == <<"p", "a", "s", "t", "e", ":">>

\* lines 50-55; pis is the preventImageSplit of the render whose closure runs
getSourceKey(source, pis) ==
  IF source.tab = "upload"
  THEN source.file.name \o <<":">> \o Dec(source.file.size) \o <<":">>
       \o Dec(source.file.lastModified) \o PreventSplitTag \o BoolStr(pis)
  ELSE PastePrefix \o source.markdown \o PreventSplitTag \o BoolStr(pis)

\* lines 57-71; uploadFile is NoFile when the argument is omitted
createConversionSource(uploadFile) ==
  IF activeInputTab = "upload"
  THEN LET sourceFile == IF uploadFile.some THEN uploadFile ELSE file
       IN IF ~sourceFile.some THEN NoSource ELSE UploadSource(sourceFile)
  ELSE IF TrimStr(markdown) = <<>> THEN NoSource ELSE PasteSource(markdown)

\* lines 74-82: the form convertToBlob posts
FormData(source, outputFormat, pis) ==
  [format |-> outputFormat,
   preventImageSplit |-> IF pis THEN "true" ELSE "false",
   file |-> IF source.tab = "upload" THEN source.file ELSE NoFile,
   markdown |-> IF source.tab = "upload" THEN <<>> ELSE source.markdown,
   hasMarkdown |-> source.tab # "upload"]
NoForm == [format |-> "none", preventImageSplit |-> "", file |-> NoFile,
           markdown |-> <<>>, hasMarkdown |-> FALSE]
\* line 94: the body of a 200 response is the rendering of the posted form
Blob(form) == [rendered |-> form]
NoBlob == Blob(NoForm)
\* lines 89-92 and 115 / 139: the message shown for a failed request;
\* e is the error text of the response
ErrorMessage(e) ==
  LET thrown == IF e # "" THEN e ELSE "Conversion failed"
  IN IF thrown # "" THEN thrown ELSE "Something went wrong"
\* error texts a failed request can carry
Failures == {"Conversion failed. Please try again."}

\* ConvertedBundle, lines 11-15; NoBundle stands for null
Bundle(sourceKey, pdf, png) ==
  [some |-> TRUE, sourceKey |-> sourceKey, pdf |-> pdf, png |-> png]
NoBundle == [some |-> FALSE, sourceKey |-> <<>>, pdf |-> NoBlob, png |-> NoBlob]

\* lines 170-183
getDownloadBaseName(source) ==
  LET fileName == TrimStr(source.file.name)
      lastDotIndex == LastIndexOf(fileName, ".")
      document == <<"d", "o", "c", "u", "m", "e", "n", "t">>
  IN IF source.tab = "upload"
     THEN IF lastDotIndex > 0 THEN SubSeq(fileName, 1, lastDotIndex)
          ELSE IF Len(fileName) > 0 THEN fileName
          ELSE document
     ELSE document

\* what a step shows the user
Effect(kind, cached, blobs, name) ==
  [kind |-> kind, cached |-> cached, blobs |-> blobs, name |-> name]
NoEffect == Effect("none", FALSE, <<>>, <<>>)
\* lines 224-232: window.open on the blob, which the browser may block
Previewed(blob, cached, blocked) ==
  Effect(IF blocked THEN "blocked" ELSE "preview", cached, <<blob>>, <<>>)
PopupBlocked ==
  "Preview was blocked by your browser. Please allow pop-ups and try again."
\* lines 213-215
Downloaded(bundle, cached, source) ==
  Effect("download", cached, <<bundle.pdf, bundle.png>>, getDownloadBaseName(source))

\* a conversion in flight: the closure of its handler and its fetches
OpIds == 1..MaxOps
BothOp(source, pis, by) ==
  [state |-> "running", kind |-> "both", by |-> by, source |-> source,
   pis |-> pis, req |-> [pdf |-> "inflight", png |-> "inflight"]]
SingleOp(source, pis, fmt) ==
  [state |-> "running", kind |-> "single", by |-> "preview", source |-> source,
   pis |-> pis,
   req |-> [pdf |-> IF fmt = "pdf" THEN "inflight" ELSE "none",
            png |-> IF fmt = "png" THEN "inflight" ELSE "none"]]

CanStart == nstarted < MaxStarts /\ Len(ops) < MaxOps
Running(o) == o \in 1..Len(ops)
Unresolved(op) == op.req.pdf = "inflight" \/ op.req.png = "inflight"
RemoveAt(seq, i) == SubSeq(seq, 1, i - 1) \o SubSeq(seq, i + 1, Len(seq))

ClientInit ==
  /\ tab = "paste"
  /\ lastInputTab = "paste"
  /\ markdown = <<>>
  /\ file = NoFile
  /\ format = "pdf"
  /\ preventImageSplit \in BOOLEAN
  /\ loading = FALSE
  /\ error = ""
  /\ convertedBundle = NoBundle
  /\ ops = <<>>
  /\ effect = NoEffect
  /\ nstarted = 0

\* ------------------------------------------------- client: event handlers
\* lines 45-48
setInputTab(nextTab) ==
  /\ tab # nextTab
  /\ tab' = nextTab
  /\ lastInputTab' = nextTab
  /\ effect' = NoEffect
  /\ UNCHANGED <<markdown, file, format, preventImageSplit, loading, error,
                 convertedBundle, ops, nstarted, svars>>

\* line 277
OpenSettings ==
  /\ tab # "settings"
  /\ tab' = "settings"
  /\ effect' = NoEffect
  /\ UNCHANGED <<lastInputTab, markdown, file, format, preventImageSplit,
                 loading, error, convertedBundle, ops, nstarted, svars>>

\* lines 379 and 389
setFormat(fmt) ==
  /\ format # fmt
  /\ format' = fmt
  /\ effect' = NoEffect
  /\ UNCHANGED <<tab, lastInputTab, markdown, file, preventImageSplit, loading,
                 error, convertedBundle, ops, nstarted, svars>>

\* lines 301-305: the textarea exists on the paste tab only
EditMarkdown(text) ==
  /\ tab = "paste"
  /\ text # markdown
  /\ markdown' = text
  /\ error' = ""
  /\ convertedBundle' = NoBundle
  /\ effect' = NoEffect
  /\ UNCHANGED <<tab, lastInputTab, file, format, preventImageSplit, loading,
                 ops, nstarted, svars>>

\* lines 358-361: the checkbox exists on the settings tab only
TogglePreventImageSplit ==
  /\ tab = "settings"
  /\ preventImageSplit' = ~preventImageSplit
  /\ convertedBundle' = NoBundle
  /\ effect' = NoEffect
  /\ UNCHANGED <<tab, lastInputTab, markdown, file, format, loading, error,
                 ops, nstarted, svars>>

\* line 334: the button exists on the upload tab while a file is chosen
RemoveFile ==
  /\ tab = "upload"
  /\ file.some
  /\ file' = NoFile
  /\ convertedBundle' = NoBundle
  /\ effect' = NoEffect
  /\ UNCHANGED <<tab, lastInputTab, markdown, format, preventImageSplit,
                 loading, error, ops, nstarted, svars>>

\* lines 97-105: convertBothFormats up to its await
StartBoth(source, by) ==
  /\ CanStart
  /\ ops' = Append(ops, BothOp(source, preventImageSplit, by))
  /\ loading' = TRUE
  /\ error' = ""
  /\ nstarted' = nstarted + 1

\* line 150
Accepted(f) ==
  /\ f.some
  /\ \/ EndsWith(f.name, <<".", "m", "d">>)
     \/ EndsWith(f.name, <<".", "m", "a", "r", "k", "d", "o", "w", "n">>)
     \/ f.type = "text/markdown"
     \/ f.type = "text/plain"

\* lines 146-158: the dropzone exists on the upload tab only
handleDrop(droppedFile) ==
  /\ tab = "upload"
  /\ IF Accepted(droppedFile)
     THEN /\ file' = droppedFile
          /\ convertedBundle' = NoBundle
          /\ StartBoth(UploadSource(droppedFile), "upload")
     ELSE /\ error' = "Please drop a markdown (.md) file"
          /\ UNCHANGED <<file, convertedBundle, ops, loading, nstarted>>
  /\ effect' = NoEffect
  /\ UNCHANGED <<tab, lastInputTab, markdown, format, preventImageSplit, svars>>

\* lines 160-168
handleFileSelect(selected) ==
  /\ tab = "upload"
  /\ selected.some
  /\ file' = selected
  /\ convertedBundle' = NoBundle
  /\ StartBoth(UploadSource(selected), "upload")
  /\ effect' = NoEffect
  /\ UNCHANGED <<tab, lastInputTab, markdown, format, preventImageSplit, svars>>

\* line 129 and line 205
CacheHit(source) ==
  /\ convertedBundle.some
  /\ convertedBundle.sourceKey = getSourceKey(source, preventImageSplit)

\* line 130 returning the pdf output whatever the preview format is
CachedOutputPdfOnly(fmt) == convertedBundle.pdf
\* line 130
CachedOutput(fmt) ==
  IF fmt = "pdf" THEN convertedBundle.pdf ELSE convertedBundle.png

\* lines 218-233 with requestSingleConversion, lines 122-137, up to its await;
\* the button is disabled while loading or without content (line 405)
handlePreview(blocked) ==
  /\ ~loading
  /\ hasContent
  /\ LET source == createConversionSource(NoFile)
     IN IF source = NoSource
        THEN /\ error' = "Please provide markdown content"
             /\ effect' = NoEffect
             /\ UNCHANGED <<ops, loading, nstarted>>
        ELSE IF CacheHit(source)
        THEN /\ effect' = Previewed(CachedOutput(format), TRUE, blocked)
             /\ error' = IF blocked THEN PopupBlocked ELSE error
             /\ UNCHANGED <<ops, loading, nstarted>>
        ELSE /\ CanStart
             /\ ops' = Append(ops, SingleOp(source, preventImageSplit, format))
             /\ loading' = TRUE
             /\ error' = ""
             /\ nstarted' = nstarted + 1
             /\ effect' = NoEffect
  /\ UNCHANGED <<tab, lastInputTab, markdown, file, format, preventImageSplit,
                 convertedBundle, svars>>

\* lines 196-216 up to the await of line 207 (line 426 disables the button)
handleDownload ==
  /\ ~loading
  /\ hasContent
  /\ LET source == createConversionSource(NoFile)
     IN IF source = NoSource
        THEN /\ error' = "Please provide markdown content"
             /\ effect' = NoEffect
             /\ UNCHANGED <<ops, loading, nstarted>>
        ELSE IF CacheHit(source)
        THEN /\ effect' = Downloaded(convertedBundle, TRUE, source)
             /\ UNCHANGED <<ops, loading, error, nstarted>>
        ELSE /\ StartBoth(source, "download")
             /\ effect' = NoEffect
  /\ UNCHANGED <<tab, lastInputTab, markdown, file, format, preventImageSplit,
                 convertedBundle, svars>>

\* -------------------------------------------- client: requests completing
\* the op once one more of its requests has been answered
Answered(op, fmt, how) == [op EXCEPT !.req[fmt] = how]
\* the conversions in flight once conversion o has changed to next: it is
\* forgotten when none of its requests is outstanding
Settle(o, next) ==
  IF Unresolved(next) THEN [ops EXCEPT ![o] = next] ELSE RemoveAt(ops, o)

\* lines 107-113 with line 108 reading the setting of the latest render
\* instead of the one its closure captured
StoredBundleLatestSetting(op) ==
  Bundle(getSourceKey(op.source, preventImageSplit),
         Blob(FormData(op.source, "pdf", op.pis)),
         Blob(FormData(op.source, "png", op.pis)))

\* lines 107-113 with line 108 fingerprinting the source that is active when
\* the requests have resolved instead of the source that was converted
StoredBundleLatestSource(op) ==
  LET latest == createConversionSource(NoFile)
  IN Bundle(getSourceKey(IF latest = NoSource THEN op.source ELSE latest, op.pis),
            Blob(FormData(op.source, "pdf", op.pis)),
            Blob(FormData(op.source, "png", op.pis)))

\* lines 107-113: Promise.all resolved
StoredBundle(op) ==
  Bundle(getSourceKey(op.source, op.pis),
         Blob(FormData(op.source, "pdf", op.pis)),
         Blob(FormData(op.source, "png", op.pis)))

\* fetch of line 84 answered 200 for the fmt request of conversion o
ResolveOk(o, fmt, blocked) ==
  /\ Running(o)
  /\ ops[o].req[fmt] = "inflight"
  /\ LET op == ops[o]
         next == Answered(op, fmt, "ok")
     IN /\ ops' = Settle(o, next)
        /\ CASE op.state = "settled" ->
                  \* the other half already failed: Promise.all ignores this
                  /\ effect' = NoEffect
                  /\ UNCHANGED <<loading, error, convertedBundle>>
             [] op.state = "running" /\ op.kind = "single" ->
                  \* lines 137, 142 and 219-232
                  /\ loading' = FALSE
                  /\ effect' = Previewed(Blob(FormData(op.source, fmt, op.pis)),
                                         FALSE, blocked)
                  /\ error' = IF blocked THEN PopupBlocked ELSE error
                  /\ UNCHANGED convertedBundle
             [] op.state = "running" /\ op.kind = "both"
                  /\ Unresolved(next) ->
                  \* Promise.all still waits for the other half
                  /\ effect' = NoEffect
                  /\ UNCHANGED <<loading, error, convertedBundle>>
             [] OTHER ->
                  \* lines 107-113, 118 and 209-215
                  /\ convertedBundle' = StoredBundle(op)
                  /\ loading' = FALSE
                  /\ effect' = IF op.by = "download"
                               THEN Downloaded(StoredBundle(op), FALSE, op.source)
                               ELSE NoEffect
                  /\ UNCHANGED error
  /\ UNCHANGED <<tab, lastInputTab, markdown, file, format, preventImageSplit,
                 nstarted, svars>>

\* ResolveFail with the rejected half not settling the conversion, as if
\* line 102 waited with Promise.allSettled
ResolveFailKeepsRunning(o, fmt, e) ==
  /\ Running(o)
  /\ ops[o].req[fmt] = "inflight"
  /\ LET op == ops[o]
         next == Answered(op, fmt, "fail")
     IN /\ ops' = Settle(o, next)
        /\ error' = ErrorMessage(e)
        /\ loading' = FALSE
  /\ effect' = NoEffect
  /\ UNCHANGED <<tab, lastInputTab, markdown, file, format, preventImageSplit,
                 convertedBundle, nstarted, svars>>

\* fetch of line 84 rejected or answered with a non-2xx status
ResolveFail(o, fmt, e) ==
  /\ Running(o)
  /\ ops[o].req[fmt] = "inflight"
  /\ LET op == ops[o]
         next == [Answered(op, fmt, "fail") EXCEPT !.state = "settled"]
     IN /\ ops' = Settle(o, next)
        /\ IF op.state = "settled"
           THEN UNCHANGED <<loading, error>>
           ELSE \* lines 114-118 / 138-142
                /\ error' = ErrorMessage(e)
                /\ loading' = FALSE
  /\ effect' = NoEffect
  /\ UNCHANGED <<tab, lastInputTab, markdown, file, format, preventImageSplit,
                 convertedBundle, nstarted, svars>>

ClientIdle == ClientInit /\ preventImageSplit = TRUE

Pipeline(s) ==
  \/ GetBrowser(s)
  \/ LaunchOk(s)
  \/ LaunchFail(s)
  \/ NewPageOk(s)
  \/ NewPageFail(s)
  \/ SetContentOk(s)
  \/ PdfOk(s)
  \/ SetViewport1Ok(s)
  \/ \E h \in Heights : MeasureOk(s, h)
  \/ SetViewport2Ok(s)
  \/ ScreenshotOk(s)
  \/ StepFail(s)
  \/ Finally(s)
  \/ Finish(s)

\* handlers running concurrently, fed by browser clients
Next ==
  \/ \E s \in SlotIds : \E in \in ClientRequests : Post(s, in)
  \/ \E s \in SlotIds : Pipeline(s)
  \/ \E b \in 1..MaxLaunches : Disconnect(b)

Init == ServerInit /\ ClientIdle

Spec == Init /\ [][Next]_vars

\* one request at a time, of every shape
AllIdle == \A s \in SlotIds : slot[s].pc = "idle"
NextApi ==
  \/ AllIdle /\ \E s \in SlotIds : \E in \in AllRequests : Post(s, in)
  \/ \E s \in SlotIds : Pipeline(s)
  \/ \E b \in 1..MaxLaunches : Disconnect(b)

SpecApi == Init /\ [][NextApi]_vars

\* the browser client; the server answers each request with 200 or an error
NextClient ==
  \/ \E t \in {"paste", "upload"} : setInputTab(t)
  \/ OpenSettings
  \/ \E fmt \in {"pdf", "png"} : setFormat(fmt)
  \/ \E text \in Texts : EditMarkdown(text)
  \/ TogglePreventImageSplit
  \/ RemoveFile
  \/ \E f \in Droppable : handleDrop(f)
  \/ \E f \in Files : handleFileSelect(f)
  \/ \E blocked \in BOOLEAN : handlePreview(blocked)
  \/ handleDownload
  \/ \E o \in OpIds : \E fmt \in {"pdf", "png"} : \E blocked \in BOOLEAN :
       ResolveOk(o, fmt, blocked)
  \/ \E o \in OpIds : \E fmt \in {"pdf", "png"} : \E e \in Failures :
       ResolveFail(o, fmt, e)

InitClient == ServerInit /\ ClientInit

SpecClient == InitClient /\ [][NextClient]_vars

\* ================================================================ claims
Live == {b \in 1..Len(browsers) : browsers[b] = "connected"}
Active(s) == slot[s].id # 0
Ended(s) == slot[s].pc = "done"

\* C1: concurrent getBrowser calls launch at most one browser: no state has
\* two launched browser processes alive at once, and all callers holding a
\* live session hold the same one.
C1_SingleLaunch ==
  /\ Cardinality(Live) <= 1
  /\ \A s, t \in SlotIds :
       Connected(slot[s].browser) /\ Connected(slot[t].browser)
         => slot[s].browser = slot[t].browser

\* C2: a page opened by a conversion has had close() called on it exactly
\* once by the time the conversion has ended, whatever step failed or
\* succeeded, and is then no longer open; until then close() has not been
\* called, and the page is rasterized at most once (no step is retried).
C2_PageClosedOnce ==
  \A p \in 1..Len(pages) :
    LET using == {s \in SlotIds :
                    /\ slot[s].id = pages[p].opener
                    /\ slot[s].pc \in TryPcs \cup {"close"}}
    IN /\ pages[p].pdfs + pages[p].shots <= 1
       /\ IF using # {}
          THEN pages[p].closeCalls = 0
          ELSE pages[p].closeCalls = 1 /\ pages[p].state # "open"

\* a conversion whose capture step failed has ended with its page closed
C2_Witness ==
  \E s \in SlotIds :
    /\ Ended(s) /\ slot[s].thrown /\ slot[s].page # 0
    /\ pages[slot[s].page].state = "closed"
    /\ pages[slot[s].page].closeCalls = 1
    /\ pages[slot[s].page].doc = NoDoc

\* C6: a request whose content exceeds 5 MiB, however it is sent, is
\* answered 400 at once and never reaches convertMarkdown.
C6_OversizeRejected ==
  \A s \in SlotIds :
    Active(s) /\ ContentSize(slot[s].input) > MAX_SIZE
      => Ended(s) /\ slot[s].resp.status = 400 /\ ~slot[s].invoked

\* what C7 calls a malformed request body
Malformed(in) ==
  /\ in.ct = "json"
  /\ \/ ~in.parses
     \/ in.body # "object"
     \/ in.markdown.t \notin {"string", "undefined"}

\* C7: a malformed request body is answered 400 and never reaches
\* convertMarkdown.
C7_MalformedIs400 ==
  \A s \in SlotIds :
    Active(s) /\ Malformed(slot[s].input)
      => Ended(s) /\ slot[s].resp.status = 400 /\ ~slot[s].invoked

\* the requests C8 is about: no file or a zero-size file with a missing or
\* blank text field, a white-space-only file, a JSON body whose markdown is
\* missing, null or blank
BlankRequest(in) ==
  /\ in.parses
  /\ \/ /\ in.ct = "multipart"
        /\ in.file.t # "file" \/ FileSize(in.file) = 0
        /\ in.markdown.t # "string" \/ in.markdown.body = 0
     \/ /\ in.ct = "multipart"
        /\ in.file.t = "file"
        /\ FileSize(in.file) > 0 /\ FileSize(in.file) <= MAX_SIZE
        /\ in.file.body = 0
     \/ /\ in.ct = "json"
        /\ in.body = "scalar"
     \/ /\ in.ct = "json"
        /\ in.body = "object"
        /\ \/ in.markdown.t \in {"undefined", "null"}
           \/ in.markdown.t = "string" /\ in.markdown.body = 0

\* C8: a request whose resolved markdown is empty or white space only is
\* answered 400 { error: "No markdown content provided" }, whatever format
\* and preventImageSplit it asks for, and convertMarkdown is not called.
C8_BlankRejected ==
  \A s \in SlotIds :
    Active(s) /\ BlankRequest(slot[s].input)
      => /\ Ended(s)
         /\ slot[s].resp.status = 400
         /\ slot[s].resp.error = "No markdown content provided"
         /\ ~slot[s].invoked

\* a white-space-only text field asking for png without preventImageSplit
C8_Witness ==
  \E s \in SlotIds :
    /\ Ended(s)
    /\ slot[s].input.ct = "multipart" /\ slot[s].input.format = "png"
    /\ slot[s].input.pis = "s:false"
    /\ slot[s].input.markdown = Str(2, 0) /\ slot[s].input.file = File(0, 0)
    /\ slot[s].resp.error = "No markdown content provided"

\* C9: a request that passed validation and met a failure in the pipeline
\* is answered 500 with the one fixed body; every request ends in exactly
\* one of 200 with the binary output, 400 or 500, and has no response
\* before it ends.
C9_OneGenericFailure ==
  \A s \in SlotIds :
    IF ~Ended(s) THEN slot[s].resp = NoResponse
    ELSE LET r == slot[s].resp
             failed == slot[s].thrown \/ slot[s].page = 0
         IN /\ r.status \in {200, 400, 500}
            /\ r.status = 400 => ~slot[s].invoked
            /\ r.status = 500 =>
                 /\ r.error = "Conversion failed. Please try again."
                 /\ r.body = NoOutput
            /\ r.status = 200 =>
                 /\ slot[s].invoked /\ ~failed
                 /\ r.body = slot[s].result /\ r.body.kind = slot[s].format
                 /\ r.mime = (IF slot[s].format = "pdf" THEN "application/pdf"
                              ELSE "image/png")
            /\ slot[s].invoked /\ failed => r.status = 500

\* the capture succeeded and closing the page failed: 500, no output sent
C9_Witness ==
  \E s \in SlotIds :
    /\ Ended(s) /\ slot[s].invoked
    /\ slot[s].result.kind = "png"
    /\ pages[slot[s].page].closeCalls = 1
    /\ slot[s].resp.status = 500

\* C10: a launch that fails leaves the stored singleton as it was, opens no
\* page and answers with the failure; the singleton is never anything but
\* null or a browser that was launched; and a getBrowser call that finds
\* no connected singleton (as after such a failure) goes on to launch.
C10_LaunchFailureStoresNothing ==
  /\ [][\A s \in SlotIds :
          slot[s].pc = "launching" /\ slot'[s].pc = "done"
            => /\ browserInstance' = browserInstance
               /\ browsers' = browsers
               /\ pages' = pages
               /\ slot'[s].page = 0 /\ slot'[s].browser = 0
               /\ slot'[s].resp.status = 500]_vars
  /\ [][\A s \in SlotIds :
          slot[s].pc = "convert" /\ slot'[s].pc # "convert" /\ NeedsLaunch
            => slot'[s].pc = "launching"]_vars
  /\ [](browserInstance \in 0..Len(browsers))

\* a launch failed while the old, disconnected browser was stored, and it
\* is still the one stored
C10_Witness ==
  \E s \in SlotIds :
    /\ Ended(s) /\ slot[s].invoked /\ slot[s].browser = 0
    /\ slot[s].resp.status = 500
    /\ browserInstance # 0 /\ ~Connected(browserInstance)

\* ------------------------------------------------------- claims, client
\* the rendering of the currently active source under the current setting
CurrentSource == createConversionSource(NoFile)
Fresh(blob) ==
  blob = Blob(FormData(CurrentSource, blob.rendered.format, preventImageSplit))
Served == effect.kind \in {"preview", "blocked", "download"}

\* C3: a blob that preview or download takes from the cached bundle was
\* converted from exactly the currently active source and the current
\* preventImageSplit value.
C3_NoStaleBundleServed ==
  Served /\ effect.cached
    => \A i \in 1..Len(effect.blobs) : Fresh(effect.blobs[i])

\* C4 as claimed: a download never takes its outputs from the bundle that
\* was cached before the call; it always converts both formats anew.
C4_DownloadAlwaysConverts == ~(effect.kind = "download" /\ effect.cached)

\* the bundle a dual-format conversion must store: both outputs under the
\* fingerprint of the source and setting it was called with
CallTimeBundle(op) ==
  [some |-> TRUE,
   sourceKey |-> getSourceKey(op.source, op.pis),
   pdf |-> Blob(FormData(op.source, "pdf", op.pis)),
   png |-> Blob(FormData(op.source, "png", op.pis))]

\* C4 as amended: a download with a valid source takes both outputs from
\* the cached bundle, issuing no request, when its fingerprint equals the
\* fingerprint computed at call time; otherwise it starts the pdf and the
\* png conversion together, and when both have succeeded it stores and
\* downloads both outputs under the fingerprint of the source and setting
\* of the call, replacing whatever bundle is cached by then.
C4_DownloadUsesOrReplacesCache ==
  /\ [][handleDownload /\ CurrentSource # NoSource =>
          IF CacheHit(CurrentSource)
          THEN /\ effect' = Effect("download", TRUE,
                                   <<convertedBundle.pdf, convertedBundle.png>>,
                                   getDownloadBaseName(CurrentSource))
               /\ UNCHANGED <<ops, convertedBundle, loading>>
          ELSE /\ Len(ops') = Len(ops) + 1
               /\ ops'[Len(ops')].source = CurrentSource
               /\ ops'[Len(ops')].pis = preventImageSplit
               /\ ops'[Len(ops')].req = [pdf |-> "inflight", png |-> "inflight"]
               /\ UNCHANGED convertedBundle]_vars
  /\ [][effect'.kind = "download" /\ ~effect'.cached =>
          \E o \in 1..Len(ops) :
            /\ ops[o].by = "download"
            /\ Len(ops') = Len(ops) - 1
            /\ convertedBundle' = CallTimeBundle(ops[o])
            /\ effect'.blobs = <<convertedBundle'.pdf, convertedBundle'.png>>]_vars

\* a download converted, the setting was changed while it was in flight,
\* and the bundle it stored carries the fingerprint of the call
C4_Witness ==
  /\ effect.kind = "download" /\ ~effect.cached
  /\ convertedBundle.some
  /\ CurrentSource # NoSource
  /\ convertedBundle.sourceKey # getSourceKey(CurrentSource, preventImageSplit)
  /\ convertedBundle.sourceKey = getSourceKey(CurrentSource, ~preventImageSplit)

\* C5: a preview made while the cached bundle's fingerprint equals that of
\* the current input and settings opens the bundle's output of the selected
\* preview format and starts no conversion; changing the preview format
\* alone neither drops the bundle nor changes the fingerprint.
C5_PreviewServedFromCache ==
  /\ [][(\E blocked \in BOOLEAN : handlePreview(blocked))
          /\ CurrentSource # NoSource /\ CacheHit(CurrentSource) =>
            /\ effect'.kind \in {"preview", "blocked"}
            /\ effect'.cached
            /\ Len(effect'.blobs) = 1
            /\ effect'.blobs[1] \in {convertedBundle.pdf, convertedBundle.png}
            /\ effect'.blobs[1].rendered.format = format
            /\ UNCHANGED <<ops, nstarted, loading, convertedBundle>>]_vars
  /\ [][format' # format =>
          /\ convertedBundle' = convertedBundle
          /\ CacheHit(CurrentSource)' = CacheHit(CurrentSource)
          /\ getSourceKey(CurrentSource, preventImageSplit)'
               = getSourceKey(CurrentSource, preventImageSplit)]_vars

\* the png output of the cached bundle was previewed
C5_Witness ==
  /\ effect.kind = "preview" /\ effect.cached
  /\ format = "png"
  /\ effect.blobs = <<convertedBundle.png>>
  /\ convertedBundle.png.rendered.format = "png"

\* a bundle holding both outputs of one source under one setting
Complete(b) ==
  /\ b.some
  /\ b.pdf # NoBlob /\ b.png # NoBlob
  /\ b.pdf.rendered.format = "pdf" /\ b.png.rendered.format = "png"
  /\ [b.pdf.rendered EXCEPT !.format = "png"] = b.png.rendered

\* C11: the cached bundle is always absent or complete. A bundle is written
\* only by the step in which the second of the two requests of a dual-format
\* conversion succeeds, the first having succeeded, and that one write holds
\* the fingerprint and both outputs; the conversion is then over. A failing
\* request writes nothing and, when it is the first failure of its
\* conversion, reports the failure. A single-format preview conversion
\* never writes the cache.
C11_BundleAbsentOrComplete ==
  /\ [](convertedBundle = NoBundle \/ Complete(convertedBundle))
  /\ [][convertedBundle' # convertedBundle /\ convertedBundle'.some =>
          \E o \in 1..Len(ops) : \E fmt \in {"pdf", "png"} :
            /\ ops[o].kind = "both" /\ ops[o].state = "running"
            /\ ops[o].req = [[pdf |-> "ok", png |-> "ok"] EXCEPT ![fmt] = "inflight"]
            /\ ops' = RemoveAt(ops, o)
            /\ convertedBundle'.sourceKey # <<>>
            /\ convertedBundle'.pdf = Blob(FormData(ops[o].source, "pdf", ops[o].pis))
            /\ convertedBundle'.png = Blob(FormData(ops[o].source, "png", ops[o].pis))]_vars
  /\ [][\A o \in OpIds : \A fmt \in {"pdf", "png"} : \A e \in Failures :
          ResolveFail(o, fmt, e) =>
            /\ convertedBundle' = convertedBundle
            /\ ops[o].state = "running" =>
                 error' # "" /\ ~loading' /\ effect'.kind = "none"]_vars

\* one half of a dual-format conversion failed while the other is still in
\* flight: the failure is shown and no bundle is cached
C11_Witness ==
  /\ convertedBundle = NoBundle
  /\ error = "Conversion failed. Please try again."
  /\ \E o \in 1..Len(ops) :
       /\ ops[o].kind = "both" /\ ops[o].state = "settled"
       /\ ops[o].req = [pdf |-> "fail", png |-> "inflight"]

\* the (source, preventImageSplit) pairs fingerprinted by the conversions in
\* flight, and the pair a preview or download would fingerprint now
KeyInputs ==
  {<<ops[o].source, ops[o].pis>> : o \in 1..Len(ops)}
    \cup (IF CurrentSource # NoSource
          THEN {<<CurrentSource, preventImageSplit>>} ELSE {})
\* the same kind and the same text, or the same file identity
SameSource(a, b) ==
  /\ a.tab = b.tab
  /\ a.tab = "paste" => a.markdown = b.markdown
  /\ a.tab = "upload" =>
       /\ a.file.name = b.file.name
       /\ a.file.size = b.file.size
       /\ a.file.lastModified = b.file.lastModified

\* C12: getSourceKey is injective: two (source, preventImageSplit) pairs
\* with equal fingerprints have the same source kind, the same text or the
\* same file identity, and the same preventImageSplit value.
C12_KeyInjective ==
  \A a, b \in KeyInputs :
    getSourceKey(a[1], a[2]) = getSourceKey(b[1], b[2])
      => SameSource(a[1], b[1]) /\ a[2] = b[2]

\* ------------------------------------------------------- claims, pipeline
\* C13: conversions running at the same time never share a page: each
\* holds a page it opened itself, a page is loaded, measured, captured and
\* closed by no conversion but its opener, the document on a page is its
\* opener's, and the output a conversion returns was produced from its own
\* document in its own requested format.
C13_PageIsolation ==
  /\ \A s, t \in SlotIds :
       s # t /\ slot[s].page # 0 /\ slot[t].page # 0 => slot[s].page # slot[t].page
  /\ \A s \in SlotIds :
       /\ slot[s].page # 0 => pages[slot[s].page].opener = slot[s].id
       /\ slot[s].page # 0 /\ pages[slot[s].page].doc # NoDoc
            => pages[slot[s].page].doc = slot[s].html
       /\ slot[s].result # NoOutput =>
            /\ slot[s].result.doc = slot[s].html
            /\ slot[s].result.kind = slot[s].format
       /\ slot[s].resp.status = 200 =>
            /\ slot[s].resp.body = slot[s].result
            /\ slot[s].resp.body.doc = slot[s].html
            /\ slot[s].resp.body.kind = slot[s].format
  /\ \A p \in 1..Len(pages) : pages[p].users \subseteq {pages[p].opener}

\* a pdf and a png conversion of different documents have both captured
\* their output while both their pages were open in the same browser
C13_Witness ==
  \E s, t \in SlotIds :
    /\ slot[s].pc = "close" /\ slot[t].pc = "close"
    /\ slot[s].result.kind = "pdf" /\ slot[t].result.kind = "png"
    /\ slot[s].result.doc # slot[t].result.doc
    /\ pages[slot[s].page].state = "open" /\ pages[slot[t].page].state = "open"
    /\ pages[slot[s].page].browser = pages[slot[t].page].browser

\* C14: a getBrowser call made while the stored handle is connected
\* launches nothing and returns the stored handle; a call made while
\* nothing is stored or the stored handle is disconnected goes on to
\* launch, and the browser it launches is stored as the singleton in the
\* step that returns it; the singleton only ever changes to a browser
\* launched in that step, so a handle that was replaced is never stored or
\* returned again; every handle returned is the stored one and is
\* connected when it is returned.
C14_GetBrowserContract ==
  /\ [][\A s \in SlotIds :
          slot[s].pc = "convert" /\ slot'[s].pc # "convert" =>
            IF browserInstance # 0 /\ browsers[browserInstance] = "connected"
            THEN /\ slot'[s].pc = "newPage"
                 /\ slot'[s].browser = browserInstance
                 /\ UNCHANGED <<browserInstance, browsers>>
            ELSE /\ slot'[s].pc = "launching"
                 /\ slot'[s].browser = 0
                 /\ UNCHANGED <<browserInstance, browsers>>]_vars
  /\ [][\A s \in SlotIds :
          slot[s].pc = "launching" /\ slot'[s].pc = "newPage" =>
            /\ Len(browsers') = Len(browsers) + 1
            /\ browserInstance' = Len(browsers')
            /\ slot'[s].browser = browserInstance']_vars
  /\ [][browserInstance' # browserInstance =>
          /\ browserInstance' = Len(browsers) + 1
          /\ Len(browsers') = Len(browsers) + 1]_vars
  /\ [][\A s \in SlotIds :
          slot[s].browser = 0 /\ slot'[s].browser # 0 =>
            /\ slot'[s].browser = browserInstance'
            /\ browsers'[slot'[s].browser] = "connected"]_vars

\* the stored browser had disconnected, a call launched a new one and holds
\* it, and the new one is the singleton
C14_Witness ==
  \E s \in SlotIds :
    /\ slot[s].pc = "newPage" /\ slot[s].launched
    /\ slot[s].browser = 2 /\ browserInstance = 2
    /\ browsers = <<"disconnected", "connected">>

\* the least integer that is not below the rational n / HeightDen
IsCeil(k, n) == k * HeightDen >= n /\ (k - 1) * HeightDen < n

\* C15: in a png conversion the body is measured only while the viewport
\* is 900 x 100, the viewport is given its final size only after the
\* measurement, and the capture is taken only while the viewport is
\* 900 x (ceil(h) + 40) for the measured height h; the output carries that
\* size, and a measured height of 0 leads to a capture 40 high like any
\* other height, not to an error.
C15_PngViewport ==
  /\ [][\A s \in SlotIds :
          slot[s].pc = "measure" /\ slot'[s].pc = "setViewport2" =>
            /\ pages[slot[s].page].vw = ViewportWidth
            /\ pages[slot[s].page].vh = NominalHeight
            /\ pages[slot[s].page].doc = slot[s].html
            /\ slot'[s].height >= 0]_vars
  /\ [][\A p \in 1..Len(pages) :
          pages'[p].vh \notin {0, NominalHeight, pages[p].vh} =>
            /\ pages[p].measured
            /\ pages[p].vh = NominalHeight
            /\ pages[p].shots = 0]_vars
  /\ [][\A s \in SlotIds :
          slot[s].page # 0 /\ pages'[slot[s].page].shots # pages[slot[s].page].shots =>
            /\ slot[s].format = "png"
            /\ pages[slot[s].page].measured
            /\ pages[slot[s].page].vw = 900
            /\ IsCeil(pages[slot[s].page].vh - 40, slot[s].height)
            /\ slot'[s].result.kind = "png"
            /\ slot'[s].result.vw = 900
            /\ slot'[s].result.vh = pages[slot[s].page].vh
            /\ slot[s].height = 0 => slot'[s].result.vh = 40 /\ ~slot'[s].thrown]_vars
  /\ [](\A s \in SlotIds :
          slot[s].resp.status = 200 /\ slot[s].format = "png" =>
            /\ slot[s].resp.body.vw = 900
            /\ IsCeil(slot[s].resp.body.vh - 40, slot[s].height))

\* a body measured 0 high was captured and answered: 900 x 40
C15_Witness ==
  \E s \in SlotIds :
    /\ Ended(s) /\ slot[s].resp.status = 200
    /\ slot[s].height = 0
    /\ slot[s].resp.body.kind = "png"
    /\ slot[s].resp.body.vw = 900 /\ slot[s].resp.body.vh = 40
    /\ pages[slot[s].page].measured

Contains(seq, x) == \E i \in 1..Len(seq) : seq[i] = x
\* fragments marked.parse can return and the options convertMarkdown can
\* be called with (has = FALSE: preventImageSplit omitted)
Fragments == {[t |-> "html", ws |-> w, body |-> b] : w \in 0..1, b \in 0..2}
OptionValues ==
  {[has |-> h, preventImageSplit |-> v] : h \in BOOLEAN, v \in BOOLEAN}

\* C16: for every fragment, the empty one included, and every options
\* value, the document htmlTemplate builds from the resolved options holds
\* the fragment as its body, holds the pagination-safety block exactly when
\* preventImageSplit is true or omitted, and holds the heading break-after
\* rule either way; the document a conversion loads is the one built from
\* its own markdown and its own preventImageSplit, whatever else the server
\* is doing.
C16_TemplateBlock ==
  /\ \A frag \in Fragments : \A options \in OptionValues :
       LET document == htmlTemplate(frag, ResolveOptions(options))
       IN /\ document.body = frag
          /\ Contains(document.css, "pagination-safety")
               <=> (~options.has \/ options.preventImageSplit)
          /\ Contains(document.css, "heading-break-after")
  /\ \A s \in SlotIds :
       slot[s].invoked =>
         /\ slot[s].html.body = MarkedParse(slot[s].markdown)
         /\ Contains(slot[s].html.css, "pagination-safety") <=> slot[s].pis
         /\ Contains(slot[s].html.css, "heading-break-after")
         /\ slot[s].html = htmlTemplate(MarkedParse(slot[s].markdown),
                                        [preventImageSplit |-> slot[s].pis])

\* a conversion asked for without preventImageSplit has loaded a document
\* that has the heading rule and not the pagination-safety block
C16_Witness ==
  \E s \in SlotIds :
    /\ slot[s].invoked /\ ~slot[s].pis
    /\ slot[s].page # 0 /\ pages[slot[s].page].doc = slot[s].html
    /\ ~Contains(slot[s].html.css, "pagination-safety")
    /\ Contains(slot[s].html.css, "heading-break-after")

\* ------------------------------------------------------- claims, handler
\* a multipart request has been answered as one whose markdown source is md
HandledAsSource(s, md) ==
  IF md.body = 0
  THEN Ended(s) /\ slot[s].resp = NoContent /\ ~slot[s].invoked
  ELSE slot[s].invoked /\ slot[s].markdown = md

\* C17: in a multipart request a file part of size above 0 is the markdown
\* source and the text field is ignored: its text is converted, or the
\* request is answered 400 File too large when the file exceeds 5 MiB,
\* whatever the text field holds; with no file part or one of size 0 the
\* text field is the source when it is not empty; otherwise the markdown is
\* empty.
C17_MultipartSource ==
  \A s \in SlotIds :
    LET in == slot[s].input
    IN Active(s) /\ in.ct = "multipart" /\ in.parses =>
         IF in.file.t = "file" /\ in.file.ws + in.file.body > 0
         THEN IF in.file.ws + in.file.body > 5 * 1024 * 1024
              THEN Ended(s) /\ slot[s].resp = TooLarge /\ ~slot[s].invoked
              ELSE HandledAsSource(s, [t |-> "string", ws |-> in.file.ws,
                                       body |-> in.file.body])
         ELSE IF in.markdown.t = "string" /\ in.markdown.ws + in.markdown.body > 0
         THEN HandledAsSource(s, in.markdown)
         ELSE Ended(s) /\ slot[s].resp = NoContent /\ ~slot[s].invoked

\* an oversized file sent along with a valid text field was rejected
C17_Witness ==
  \E s \in SlotIds :
    /\ Ended(s)
    /\ slot[s].input.ct = "multipart"
    /\ slot[s].input.file = File(0, MAX_SIZE + 1)
    /\ slot[s].input.markdown = Str(1, 2)
    /\ slot[s].resp = TooLarge

\* the handler, if any, that opened page p and has not yet ended
OpenerOf(p) == {s \in SlotIds : slot[s].id = pages[p].opener /\ slot[s].page = p}
Captures(pg) == pg.pdfs + pg.shots

\* C18: within one convertMarkdown call the session is acquired before the
\* page is opened, the document is loaded on the open page before anything
\* else is done to it, the page is rasterized only after the load, once,
\* by page.pdf when the format is pdf and by page.screenshot when it is
\* png, and page.close comes last; a call that succeeds has rasterized its
\* page exactly once, with the operation of its format, and closed it.
C18_StepOrder ==
  /\ [][Len(pages') > Len(pages) =>
          \E s \in SlotIds :
            /\ slot[s].browser # 0 /\ slot[s].page = 0
            /\ slot'[s].page = Len(pages')
            /\ pages'[Len(pages')].browser = slot[s].browser
            /\ pages'[Len(pages')].doc = NoDoc
            /\ Captures(pages'[Len(pages')]) = 0
            /\ pages'[Len(pages')].closeCalls = 0]_vars
  /\ [][\A p \in 1..Len(pages) :
          pages[p].doc = NoDoc /\ pages'[p].doc # NoDoc =>
            /\ pages[p].state = "open" /\ pages[p].users = {}
            /\ Captures(pages[p]) = 0 /\ pages[p].closeCalls = 0]_vars
  /\ [][\A p \in 1..Len(pages) :
          Captures(pages'[p]) # Captures(pages[p]) =>
            /\ pages[p].doc # NoDoc
            /\ Captures(pages[p]) = 0 /\ Captures(pages'[p]) = 1
            /\ pages[p].closeCalls = 0
            /\ \A s \in OpenerOf(p) :
                 /\ pages[p].doc = slot[s].html
                 /\ pages'[p].pdfs = 1 <=> slot[s].format = "pdf"
                 /\ pages'[p].shots = 1 <=> slot[s].format = "png"]_vars
  /\ [][\A p \in 1..Len(pages) :
          pages[p].closeCalls > 0 => pages'[p] = pages[p]]_vars
  /\ [](\A s \in SlotIds :
          slot[s].resp.status = 200 =>
            /\ slot[s].browser # 0 /\ slot[s].page # 0
            /\ pages[slot[s].page].pdfs = (IF slot[s].format = "pdf" THEN 1 ELSE 0)
            /\ pages[slot[s].page].shots = (IF slot[s].format = "png" THEN 1 ELSE 0)
            /\ pages[slot[s].page].closeCalls = 1
            /\ pages[slot[s].page].state = "closed")

\* a png conversion went through every step and succeeded
C18_Witness ==
  \E s \in SlotIds :
    /\ Ended(s) /\ slot[s].resp.status = 200 /\ slot[s].format = "png"
    /\ pages[slot[s].page].users = {slot[s].id}
    /\ pages[slot[s].page].shots = 1 /\ pages[slot[s].page].pdfs = 0
    /\ pages[slot[s].page].closeCalls = 1

\* ------------------------------------------------- claims, client cache
\* the source and the setting a form was built from (lines 74-82)
SentSource(form) ==
  IF form.hasMarkdown THEN PasteSource(form.markdown) ELSE UploadSource(form.file)
SentSetting(form) == form.preventImageSplit = "true"

\* C19: the fingerprint of every cached bundle is the fingerprint of the
\* source and the preventImageSplit value that both of its requests
\* carried to the server, whatever the text, the file and the setting have
\* become since the requests were sent.
C19_BundleKeyMatchesRequests ==
  convertedBundle.some =>
    LET sentPdf == convertedBundle.pdf.rendered
        sentPng == convertedBundle.png.rendered
    IN /\ sentPdf.format = "pdf" /\ sentPng.format = "png"
       /\ SentSource(sentPdf) = SentSource(sentPng)
       /\ SentSetting(sentPdf) = SentSetting(sentPng)
       /\ convertedBundle.sourceKey
            = getSourceKey(SentSource(sentPdf), SentSetting(sentPdf))

\* a bundle was stored after the file it was converted from was replaced
\* and the setting was switched
C19_Witness ==
  /\ convertedBundle.some
  /\ ~convertedBundle.pdf.rendered.hasMarkdown
  /\ file.some /\ file # convertedBundle.pdf.rendered.file
  /\ SentSetting(convertedBundle.pdf.rendered) # preventImageSplit

\* a request of some conversion has been sent and not yet answered
RequestInFlight == \E o \in 1..Len(ops) : Unresolved(ops[o])

\* C20: while a conversion request started by preview, download, drop or
\* file selection is unresolved, loading is true.
C20_LoadingWhileInFlight == RequestInFlight => loading

====
